---- MODULE Spec2Model ----
(***************************************************************************)
(* Model of the portfolio page script (src/unnamed/part_007): the mobile   *)
(* menu toggle, the scroll handler that highlights the section in view,    *)
(* and the contact form that posts to the e-mail relay; and of the         *)
(* application's route transition (src/components/Stairs.jsx, the pages'   *)
(* fade-in) and the slider of its Projects page (src/unnamed/part_008).    *)
(*                                                                         *)
(* The HTML document the script runs against is not part of the sources;   *)
(* the pages below are built from the data model of the specification      *)
(* (sections with id / top offset / height, hash-style nav links).         *)
(***************************************************************************)
EXTENDS Integers, Sequences, FiniteSets, TLC

VARIABLES
    sections,           \* document.querySelectorAll("section"): <<[id, offsetTop, offsetHeight]>>
    navlinks,           \* document.querySelectorAll('header nav a'): <<href>>
    innerHeight,        \* window.innerHeight
    scrollHeight,       \* document.scrollingElement.scrollHeight
    scrollY,            \* window.scrollY
    linkActive,         \* linkActive[k]: navlinks[k] has class 'active'
    secShowAnimate,     \* secShowAnimate[i]: sections[i] has class 'show-animate'
    headerSticky,       \* header has class 'sticky'
    footerShowAnimate,  \* footer has class 'show-animate'
    menuIconBxX,        \* #menu-icon has class 'bx-x'
    navbarActive,       \* .navbar has class 'active'
    form,               \* values of the form controls name, email, number, message, subject
    calls,              \* Email.send calls made so far, each with its promise state
    pathname,           \* route whose page is mounted
    navigations,        \* route changes so far
    stairsPhase,        \* variant the stair panels animate to: "animate" or "exit"
    stairsClock,        \* ms since stairsPhase began
    panels,             \* panels[index]: [custom, delay, status, top] of each motion.div
    contentClock,       \* ms since the page content was mounted
    contentOpacity,     \* opacity of the page content: "0", "between" or "1"
    project,            \* Projects: the project state (the entry of works displayed)
    activeIndex         \* Projects: swiper.activeIndex

layoutVars == <<sections, navlinks, innerHeight, scrollHeight>>
classVars == <<linkActive, secShowAnimate, headerSticky, footerShowAnimate,
               menuIconBxX, navbarActive>>
scrollVars == <<linkActive, secShowAnimate, headerSticky, footerShowAnimate>>
menuVars == <<menuIconBxX, navbarActive>>
projectVars == <<project, activeIndex>>
appVars == <<pathname, navigations, stairsPhase, stairsClock, panels,
             contentClock, contentOpacity, projectVars>>
pageVars == <<layoutVars, scrollY, classVars, form, calls>>
vars == <<sections, navlinks, innerHeight, scrollHeight, scrollY, linkActive,
          secShowAnimate, headerSticky, footerShowAnimate, menuIconBxX,
          navbarActive, form, calls, pathname, navigations, stairsPhase,
          stairsClock, panels, contentClock, contentOpacity, project,
          activeIndex>>

-----------------------------------------------------------------------------
(* Bounds and program constants *)

MaxCalls == 2

MaxNavigations == 2

\* Stairs.jsx
totalSteps == 6

PanelCount == 6

StairDurationMs == 400

StairDelayStepMs == 100

\* page content and photo fade-in
ContentDelayMs == 2400

PhotoDelayMs == 2000

FadeDurationMs == 400

NavOffset == 100

StickyThreshold == 100

-----------------------------------------------------------------------------
(* Pages *)

Sec(id, top, height) == [id |-> id, hasId |-> TRUE, offsetTop |-> top, offsetHeight |-> height]

\* Contiguous sections, one nav link per section, a footer below the last one.
PageContiguous ==
    [sections |-> <<Sec("home", 0, 600), Sec("about", 600, 600), Sec("contact", 1200, 600)>>,
     navlinks |-> <<"#home", "#about", "#contact">>,
     innerHeight |-> 600, scrollHeight |-> 1900]

\* Sections separated by content that belongs to no section.
PageGapped ==
    [sections |-> <<Sec("home", 0, 400), Sec("about", 600, 400)>>,
     navlinks |-> <<"#home", "#about">>,
     innerHeight |-> 600, scrollHeight |-> 1600]

\* A section nested inside another one: their ranges overlap.
PageNested ==
    [sections |-> <<Sec("about", 0, 1000), Sec("skills", 400, 300), Sec("contact", 1000, 500)>>,
     navlinks |-> <<"#about", "#skills", "#contact">>,
     innerHeight |-> 600, scrollHeight |-> 1600]

\* One section id is a substring of an earlier link's target.
PageSubstring ==
    [sections |-> <<Sec("about-me", 0, 500), Sec("about", 500, 500)>>,
     navlinks |-> <<"#about-me", "#about">>,
     innerHeight |-> 600, scrollHeight |-> 1100]

Pages == {PageContiguous, PageGapped, PageNested, PageSubstring}

\* A section that no nav link points to.
PageLinkless ==
    [sections |-> <<Sec("home", 0, 600), Sec("gallery", 600, 600), Sec("contact", 1200, 600)>>,
     navlinks |-> <<"#home", "#contact">>,
     innerHeight |-> 600, scrollHeight |-> 1900]

\* A section without an id attribute.
PageIdless ==
    [sections |-> <<Sec("home", 0, 600),
                    [id |-> "", hasId |-> FALSE, offsetTop |-> 600, offsetHeight |-> 600]>>,
     navlinks |-> <<"#home", "#about">>,
     innerHeight |-> 600, scrollHeight |-> 1300]

\* Contiguous sections below a banner and above a footer taller than the
\* viewport: offsets before the first range and after the last can be reached.
PageOffset ==
    [sections |-> <<Sec("home", 200, 300), Sec("about", 500, 300), Sec("contact", 800, 300)>>,
     navlinks |-> <<"#home", "#about", "#contact">>,
     innerHeight |-> 600, scrollHeight |-> 1800]

LayoutPages == {PageLinkless, PageIdless, PageOffset}

-----------------------------------------------------------------------------
(* Helpers *)

Min(S) == CHOOSE x \in S : \A y \in S : x <= y

\* CSS [href*=id]: the attribute value contains id as a substring
Contains(href, id) ==
    \E i \in 1..(Len(href) - Len(id) + 1) : SubSeq(href, i, i + Len(id) - 1) = id

\* classList.add / remove / toggle(cls) / toggle(cls, force), as the new membership
ClassListAdd(has) == TRUE

\* remove leaving the class where it is
ClassListRemoveKept(has) == has

ClassListRemove(has) == FALSE

ClassListToggle(has) == ~has

\* toggle called without its force argument
ClassListToggleNoForce(has, force) == ~has

ClassListToggleForce(has, force) == force

-----------------------------------------------------------------------------
(* menuIcon.onclick *)

\* the click toggling the icon only
MenuIconClickIconOnly ==
    /\ menuIconBxX' = ClassListToggle(menuIconBxX)
    /\ UNCHANGED <<navbarActive, appVars, layoutVars, scrollY, scrollVars, form, calls>>

\* the click reaching the header as well
MenuIconClickAndHeader ==
    /\ menuIconBxX' = ClassListToggle(menuIconBxX)
    /\ navbarActive' = ClassListToggle(navbarActive)
    /\ headerSticky' = ClassListToggle(headerSticky)
    /\ UNCHANGED <<appVars, layoutVars, scrollY, linkActive, secShowAnimate,
                   footerShowAnimate, form, calls>>

MenuIconClick ==
    /\ menuIconBxX' = ClassListToggle(menuIconBxX)
    /\ navbarActive' = ClassListToggle(navbarActive)
    /\ UNCHANGED <<appVars, layoutVars, scrollY, scrollVars, form, calls>>

-----------------------------------------------------------------------------
(* window.onscroll *)

\* the id spliced into the selector string; a missing attribute reads as null
SelectorId(sec) == IF sec.hasId THEN sec.id ELSE "null"

\* document.querySelector('header nav a[href*=' + id + ']'): index of the
\* first link in document order whose href contains id, 0 for null
QuerySelector(links, id) ==
    LET m == {k \in 1..Len(links) : Contains(links[k], id)}
    IN  IF m = {} THEN 0 ELSE Min(m)

\* the upper end of the range compared with <= instead of <
InRangeClosed(sec, top) ==
    top >= sec.offsetTop - NavOffset /\ top <= sec.offsetTop - NavOffset + sec.offsetHeight

\* top >= offset && top < offset + height
InRange(sec, top) ==
    LET offset == sec.offsetTop - NavOffset
        height == sec.offsetHeight
    IN  top >= offset /\ top < offset + height

\* navlinks.forEach(links => {...}) from link k on; active is the 'active'
\* membership of every link. Reading .classList of null throws.
RECURSIVE NavlinksForEach(_, _, _, _)
NavlinksForEach(links, active, id, k) ==
    IF k > Len(links) THEN [active |-> active, threw |-> FALSE]
    ELSE LET removed == [active EXCEPT ![k] = ClassListRemove(@)]
             target == QuerySelector(links, id)
         IN  IF target = 0
             THEN [active |-> removed, threw |-> TRUE]
             ELSE NavlinksForEach(links,
                      [removed EXCEPT ![target] = ClassListAdd(@)], id, k + 1)

\* sections.forEach(sec => {...}) from section i on
RECURSIVE SectionsForEach(_, _, _, _, _)
SectionsForEach(secs, links, top, st, i) ==
    IF i > Len(secs) THEN st
    ELSE IF InRange(secs[i], top)
         THEN LET r == NavlinksForEach(links, st.active, SelectorId(secs[i]), 1)
              IN  IF r.threw
                  THEN [st EXCEPT !.active = r.active, !.threw = TRUE]
                  ELSE SectionsForEach(secs, links, top,
                           [active |-> r.active,
                            show |-> [st.show EXCEPT ![i] = ClassListAdd(@)],
                            threw |-> FALSE], i + 1)
         ELSE SectionsForEach(secs, links, top,
                  [st EXCEPT !.show[i] = ClassListRemove(@)], i + 1)

\* the threshold compared with >= instead of >
StickyAtThreshold(has, top) == ClassListToggleForce(has, top >= StickyThreshold)

\* header.classList.toggle('sticky', window.scrollY > 100)
Sticky(has, top) == ClassListToggleForce(has, top > StickyThreshold)

\* the bottom of the page compared with > instead of >=
FooterShowPastBottom(has, ih, top, sh) == ClassListToggleForce(has, ih + top > sh)

\* footer.classList.toggle('show-animate', innerHeight + scrollY >= scrollHeight)
FooterShow(has, ih, top, sh) == ClassListToggleForce(has, ih + top >= sh)

\* The whole handler as a function of the class state d and what it reads.
OnScroll(d, secs, links, top, ih, sh) ==
    LET st == SectionsForEach(secs, links, top,
                  [active |-> d.linkActive, show |-> d.secShowAnimate,
                   threw |-> FALSE], 1)
    IN  IF st.threw
        THEN [d EXCEPT !.linkActive = st.active, !.secShowAnimate = st.show]
        ELSE [linkActive |-> st.active,
              secShowAnimate |-> st.show,
              headerSticky |-> Sticky(d.headerSticky, top),
              menuIconBxX |-> ClassListRemove(d.menuIconBxX),
              navbarActive |-> ClassListRemove(d.navbarActive),
              footerShowAnimate |-> FooterShow(d.footerShowAnimate, ih, top, sh)]

Dom ==
    [linkActive |-> linkActive, secShowAnimate |-> secShowAnimate,
     headerSticky |-> headerSticky, menuIconBxX |-> menuIconBxX,
     navbarActive |-> navbarActive, footerShowAnimate |-> footerShowAnimate]

\* Scroll offsets the user can reach: the boundaries of every rule
ScrollYs ==
    LET maxY == scrollHeight - innerHeight
        edges == UNION {{s.offsetTop - NavOffset - 1, s.offsetTop - NavOffset,
                         s.offsetTop - NavOffset + s.offsetHeight - 1,
                         s.offsetTop - NavOffset + s.offsetHeight} :
                        s \in {sections[i] : i \in 1..Len(sections)}}
        all == {0, StickyThreshold - 1, StickyThreshold, StickyThreshold + 1,
                maxY - 1, maxY} \cup edges
    IN  {y \in all : 0 <= y /\ y <= maxY}

Scroll(y) ==
    /\ scrollY' = y
    /\ \E d \in {OnScroll(Dom, sections, navlinks, y, innerHeight, scrollHeight)} :
           /\ linkActive' = d.linkActive
           /\ secShowAnimate' = d.secShowAnimate
           /\ headerSticky' = d.headerSticky
           /\ menuIconBxX' = d.menuIconBxX
           /\ navbarActive' = d.navbarActive
           /\ footerShowAnimate' = d.footerShowAnimate
    /\ UNCHANGED <<appVars, layoutVars, form, calls>>

WindowScroll == \E y \in ScrollYs : Scroll(y)

-----------------------------------------------------------------------------
(* Contact form *)

EmptyForm == [name |-> "", email |-> "", number |-> "", message |-> "", subject |-> ""]

\* What the user may have typed into the form before submitting
Fillings ==
    {EmptyForm,
     [name |-> "Ann", email |-> "ann@x.io", number |-> "555", message |-> "Hello", subject |-> "Job"]}

\* Relay answers passed to the fulfilment callback
Responses == {"OK", "Mailbox unavailable"}

bodyMassage(f) ==
    "Full Name: " \o f.name \o "<br> Email:\n    " \o f.email
        \o "<br> Number : " \o f.number \o "<br> Message: " \o f.message

SuccessSwal == [title |-> "Success!", text |-> "Message sent successfull", icon |-> "success"]

\* Email.send({...}): one pending promise with its payload
EmailSend(f) ==
    [SecureToken |-> "adae5b2b-48df-4fd6-95da-5bd5236f2722",
     To |-> "dossehdosseh14@gmail.com",
     From |-> "dossehdosseh14@gmail.com",
     Subject |-> f.subject,
     Body |-> bodyMassage(f),
     state |-> "pending",
     message |-> "",
     swal |-> <<>>]

\* the fields read after the form has been reset
SendEmailAfterReset(f) == Append(calls, EmailSend(EmptyForm))

\* the relay called a second time for the same submission
SendEmailTwice(f) == Append(Append(calls, EmailSend(f)), EmailSend(f))

SendEmail(f) == Append(calls, EmailSend(f))

\* the reset left to the response callback
FormResetDeferred(f) == f

\* form.reset(): every control back to its default value
FormReset(f) == EmptyForm

\* The user types into the form
Fill(v) ==
    /\ v # form
    /\ form' = v
    /\ UNCHANGED <<appVars, layoutVars, scrollY, classVars, calls>>

UserInput == \E v \in Fillings : Fill(v)

\* form 'submit' listener
Submit ==
    /\ Len(calls) < MaxCalls
    /\ calls' = SendEmail(form)
    /\ form' = FormReset(form)
    /\ UNCHANGED <<appVars, layoutVars, scrollY, classVars>>

\* the callback without its Swal.fire call
OnFulfilledSilent(call, message) ==
    [call EXCEPT !.state = "fulfilled", !.message = message]

\* the callback without its test of the message
OnFulfilledUnchecked(call, message) ==
    [call EXCEPT !.state = "fulfilled", !.message = message,
                 !.swal = Append(@, SuccessSwal)]

\* the callback firing on any answer that is not empty
OnFulfilledNonEmpty(call, message) ==
    [call EXCEPT !.state = "fulfilled", !.message = message,
                 !.swal = IF message # "" THEN Append(@, SuccessSwal) ELSE @]

\* message => { if (message == "OK") Swal.fire({...}) }
OnFulfilled(call, message) ==
    [call EXCEPT !.state = "fulfilled", !.message = message,
                 !.swal = IF message = "OK" THEN Append(@, SuccessSwal) ELSE @]

\* the relay answers call i with message
Resolve(i, message) ==
    /\ calls[i].state = "pending"
    /\ calls' = [calls EXCEPT ![i] = OnFulfilled(@, message)]
    /\ UNCHANGED <<appVars, layoutVars, scrollY, classVars, form>>

RelayResolve == \E i \in 1..Len(calls) : \E message \in Responses : Resolve(i, message)

\* a rejection handler that reports the failure
OnRejectedReported(call) ==
    [call EXCEPT !.state = "rejected",
                 !.swal = Append(@, [title |-> "Error", text |-> "Message not sent", icon |-> "error"])]

\* .then() was given no rejection handler
OnRejected(call) == [call EXCEPT !.state = "rejected"]

Reject(i) ==
    /\ calls[i].state = "pending"
    /\ calls' = [calls EXCEPT ![i] = OnRejected(@)]
    /\ UNCHANGED <<appVars, layoutVars, scrollY, classVars, form>>

RelayReject == \E i \in 1..Len(calls) : Reject(i)

-----------------------------------------------------------------------------
(* Route transition: Stairs.jsx and the pages' fade-in *)

\* Routes of the application; "/" is the page that shows the photo and
\* "/work" the Projects page
Routes == {"/", "/services", "/resume", "/work"}

PanelIndexes == 0..(PanelCount - 1)

\* the reversal without its "- 1"
reverseIndexOffByOne(index) == totalSteps - index

\* the index passed through unreversed
reverseIndexIdentity(index) == index

\* const reverseIndex = (index) => totalSteps - index - 1
reverseIndex(index) == totalSteps - index - 1

\* the delay taken from the duration instead of the 0.1 step
StairDelayByDuration(index) == reverseIndex(index) * StairDurationMs

\* delay: reverseIndex(index) * 0.1, in ms
StairDelay(index) == reverseIndex(index) * StairDelayStepMs

\* stairsAnimation: where a panel is at the start and at the end of a variant
\* (initial top "0%", animate top "100%", exit top ["100%", "0%"])
StartTop(phase) == IF phase = "animate" THEN "0%" ELSE "100%"

\* the exit variant ending where the animate variant ends
EndTopAlwaysDisplaced(phase) == "100%"

EndTop(phase) == IF phase = "animate" THEN "100%" ELSE "0%"

\* [...Array(6)].map((_, index) => <motion.div initial="initial" .../>)
MountPanels ==
    [index \in PanelIndexes |->
        [custom |-> reverseIndex(index),
         delay |-> StairDelay(index),
         status |-> "waiting",
         top |-> "0%"]]

\* One panel after t ms of the current variant: it keeps its place until its
\* delay has passed, then runs for the duration and rests at the end value
PanelAt(p, phase, t) ==
    IF t <= p.delay THEN p
    ELSE IF t < p.delay + StairDurationMs
         THEN [p EXCEPT !.status = "running", !.top = "between"]
         ELSE [p EXCEPT !.status = "finished", !.top = EndTop(phase)]

\* delay before the content of a route starts to fade in
ContentDelay(route) == IF route = "/" THEN PhotoDelayMs ELSE ContentDelayMs

\* initial opacity 0, animate opacity 1 after the delay, over the duration
OpacityAt(route, t) ==
    IF t <= ContentDelay(route) THEN "0"
    ELSE IF t < ContentDelay(route) + FadeDurationMs THEN "between" ELSE "1"

\* const works = [...]: what tells the entries apart
works ==
    0 :> [num |-> "01", image |-> "./assets/work/thumb1.png"] @@
    1 :> [num |-> "02", image |-> "./assets/work/thumb1.png"] @@
    2 :> [num |-> "03", image |-> "./assets/work/thumb3.png"] @@
    3 :> [num |-> "04", image |-> "./assets/work/thumb2.png"]

\* what reading past the array gives: no entry, its fields cannot be read
undefined == [num |-> "undefined", image |-> "undefined"]

\* works[i]; an index outside the array reads as undefined
WorksAt(i) == IF i \in DOMAIN works THEN works[i] ELSE undefined

\* works.map((project, index) => <SwiperSlide key={index} .../>)
SlideIndexes == DOMAIN works

\* useState(works[0]) and a slider on its first slide
ProjectsMounted ==
    /\ project = WorksAt(0)
    /\ activeIndex = 0

\* the handler reading the index the slider has left
handleSlideChangePrevious(swiper) == WorksAt(swiper.previousIndex)

\* handleSlideChange: setProject(works[swiper.activeIndex])
handleSlideChange(swiper) == WorksAt(swiper.activeIndex)

\* The slider moves to slide i and reports it through onSlideChange
SlideTo(i) ==
    /\ pathname = "/work"
    /\ i \in SlideIndexes
    /\ i # activeIndex
    /\ activeIndex' = i
    /\ project' = handleSlideChange([activeIndex |-> i, previousIndex |-> activeIndex])
    /\ UNCHANGED <<pathname, navigations, stairsPhase, stairsClock, panels,
                   contentClock, contentOpacity, pageVars>>

\* swipe to the left or the "next" button
SlideNext == SlideTo(activeIndex + 1)

\* swipe to the right or the "previous" button
SlidePrev == SlideTo(activeIndex - 1)

AllFinished == \A i \in PanelIndexes : panels[i].status = "finished"

\* The application as mounted on a route
AppMounted(route) ==
    /\ pathname = route
    /\ navigations = 0
    /\ stairsPhase = "animate"
    /\ stairsClock = 0
    /\ panels = MountPanels
    /\ contentClock = 0
    /\ contentOpacity = "0"
    /\ ProjectsMounted

\* Navigation: the new page's content mounts at once; mounted stairs start
\* their exit variant, stairs already exiting go on
RouteChange(route) ==
    /\ route # pathname
    /\ navigations < MaxNavigations
    /\ pathname' = route
    /\ navigations' = navigations + 1
    /\ contentClock' = 0
    /\ contentOpacity' = "0"
    /\ project' = WorksAt(0)
    /\ activeIndex' = 0
    /\ IF stairsPhase = "animate"
       THEN /\ stairsPhase' = "exit"
            /\ stairsClock' = 0
            /\ panels' = [i \in PanelIndexes |-> [panels[i] EXCEPT !.status = "waiting"]]
       ELSE UNCHANGED <<stairsPhase, stairsClock, panels>>
    /\ UNCHANGED pageVars

Navigate == \E route \in Routes : RouteChange(route)

\* The exit variant is over: the stairs of the new route mount
StairsExitComplete ==
    /\ stairsPhase = "exit"
    /\ AllFinished
    /\ stairsPhase' = "animate"
    /\ stairsClock' = 0
    /\ panels' = MountPanels
    /\ UNCHANGED <<pathname, navigations, contentClock, contentOpacity,
                   projectVars, pageVars>>

\* One animation step of StairDelayStepMs
AnimationTick ==
    /\ ~(stairsPhase = "exit" /\ AllFinished)
    /\ \/ ~AllFinished
       \/ contentOpacity # "1"
    /\ stairsClock' = stairsClock + StairDelayStepMs
    /\ contentClock' = contentClock + StairDelayStepMs
    /\ panels' = [i \in PanelIndexes |->
                    PanelAt(panels[i], stairsPhase, stairsClock + StairDelayStepMs)]
    /\ contentOpacity' = OpacityAt(pathname, contentClock + StairDelayStepMs)
    /\ UNCHANGED <<pathname, navigations, stairsPhase, projectVars, pageVars>>

-----------------------------------------------------------------------------
(* Specification *)

Init ==
    /\ \E p \in Pages :
        /\ sections = p.sections
        /\ navlinks = p.navlinks
        /\ innerHeight = p.innerHeight
        /\ scrollHeight = p.scrollHeight
        /\ linkActive = [k \in 1..Len(p.navlinks) |-> FALSE]
        /\ secShowAnimate = [i \in 1..Len(p.sections) |-> FALSE]
    /\ scrollY = 0
    /\ headerSticky = FALSE
    /\ footerShowAnimate = FALSE
    /\ menuIconBxX = FALSE
    /\ navbarActive = FALSE
    /\ form = EmptyForm
    /\ calls = <<>>
    /\ AppMounted("/")

Next ==
    \/ MenuIconClick
    \/ WindowScroll
    \/ UserInput
    \/ Submit
    \/ RelayResolve
    \/ RelayReject

Spec == Init /\ [][Next]_vars

\* The application alone: the static page does not change
InitStairs ==
    /\ sections = PageContiguous.sections
    /\ navlinks = PageContiguous.navlinks
    /\ innerHeight = PageContiguous.innerHeight
    /\ scrollHeight = PageContiguous.scrollHeight
    /\ linkActive = [k \in 1..Len(PageContiguous.navlinks) |-> FALSE]
    /\ secShowAnimate = [i \in 1..Len(PageContiguous.sections) |-> FALSE]
    /\ scrollY = 0
    /\ headerSticky = FALSE
    /\ footerShowAnimate = FALSE
    /\ menuIconBxX = FALSE
    /\ navbarActive = FALSE
    /\ form = EmptyForm
    /\ calls = <<>>
    /\ \E route \in Routes : AppMounted(route)

NextStairs ==
    \/ Navigate
    \/ StairsExitComplete
    \/ AnimationTick

\* Animation frames keep coming and a finished exit mounts the next stairs
SpecStairs ==
    InitStairs /\ [][NextStairs]_vars
        /\ WF_vars(AnimationTick) /\ WF_vars(StairsExitComplete)

\* The page script on further documents
InitLayouts ==
    /\ \E p \in LayoutPages :
        /\ sections = p.sections
        /\ navlinks = p.navlinks
        /\ innerHeight = p.innerHeight
        /\ scrollHeight = p.scrollHeight
        /\ linkActive = [k \in 1..Len(p.navlinks) |-> FALSE]
        /\ secShowAnimate = [i \in 1..Len(p.sections) |-> FALSE]
    /\ scrollY = 0
    /\ headerSticky = FALSE
    /\ footerShowAnimate = FALSE
    /\ menuIconBxX = FALSE
    /\ navbarActive = FALSE
    /\ form = EmptyForm
    /\ calls = <<>>
    /\ AppMounted("/")

SpecLayouts == InitLayouts /\ [][Next]_vars

\* The application with the slider of the Projects page
NextProjects ==
    \/ Navigate
    \/ StairsExitComplete
    \/ AnimationTick
    \/ SlideNext
    \/ SlidePrev

SpecProjects == InitStairs /\ [][NextProjects]_vars

TypeOK ==
    /\ scrollY \in ScrollYs
    /\ Len(calls) <= MaxCalls
    /\ form \in Fillings

-----------------------------------------------------------------------------
(* Properties of the scroll handler *)

ShownSections == {i \in DOMAIN secShowAnimate : secShowAnimate[i]}

ActiveLinks == {k \in DOMAIN linkActive : linkActive[k]}

MatchingSections == {i \in 1..Len(sections) : InRange(sections[i], scrollY)}

\* C1: after the scroll handler has run, at most one section has
\* 'show-animate' and at most one nav link has 'active', for every scroll
\* offset and every section layout.
C1_AtMostOneActive ==
    [][WindowScroll =>
        (Cardinality(ShownSections') <= 1 /\ Cardinality(ActiveLinks') <= 1)]_vars

\* C2: when the scroll offset is in the range of one or more sections, after
\* the handler the one active nav link is the link looked up for the id of
\* the first matching section in document order; every other link is cleared.
C2_FirstMatchActive ==
    [][(WindowScroll /\ MatchingSections' # {}) =>
        (\A k \in 1..Len(navlinks) :
            linkActive'[k] <=>
                (k = QuerySelector(navlinks,
                         SelectorId(sections[Min(MatchingSections')]))))]_vars

\* C3: when the scroll offset is in no section's range, after the handler no
\* nav link has 'active' and no section has 'show-animate'.
C3_NoMatchClearsAll ==
    [][(WindowScroll /\ MatchingSections' = {}) =>
        (ActiveLinks' = {} /\ ShownSections' = {})]_vars

C6_Idempotent ==
    [][WindowScroll =>
        (OnScroll(Dom', sections', navlinks', scrollY', innerHeight', scrollHeight')
            = Dom')]_vars

\* a state the handler has left with every kind of indicator set
C6_Witness ==
    /\ scrollY > 100
    /\ headerSticky
    /\ footerShowAnimate
    /\ ActiveLinks # {}
    /\ ShownSections # {}
    /\ OnScroll(Dom, sections, navlinks, scrollY, innerHeight, scrollHeight) = Dom

-----------------------------------------------------------------------------
(* Properties of the contact form *)

FulfilledOK(call) == call.state = "fulfilled" /\ call.message = "OK"

\* C7: every submission answered "OK" has shown exactly one success
\* notification, and the submit handler leaves all five fields empty.
C7_OkNotifiesOnceAndClears ==
    [][/\ Submit =>
            /\ form'.name = "" /\ form'.email = "" /\ form'.number = ""
            /\ form'.message = "" /\ form'.subject = ""
       /\ \A i \in 1..Len(calls') :
            FulfilledOK(calls'[i]) =>
                (Len(calls'[i].swal) = 1 /\ calls'[i].swal[1].icon = "success")]_vars

\* a filled-in form was submitted, answered "OK", notified once, and is empty
C7_Witness ==
    /\ form = EmptyForm
    /\ \E i \in 1..Len(calls) :
        /\ FulfilledOK(calls[i])
        /\ calls[i].Subject = "Job"
        /\ Len(calls[i].swal) = 1

\* C8: a submission answered with anything but the literal "OK" never shows
\* a success notification.
C8_NonOkNeverNotifies ==
    \A i \in 1..Len(calls) :
        (calls[i].state = "fulfilled" /\ calls[i].message # "OK") =>
            calls[i].swal = <<>>

\* a submission was answered with something else
C8_Witness ==
    \E i \in 1..Len(calls) :
        /\ calls[i].state = "fulfilled"
        /\ calls[i].message = "Mailbox unavailable"
        /\ calls[i].swal = <<>>

Payload(call) ==
    <<call.SecureToken, call.To, call.From, call.Subject, call.Body>>

\* C9: each submit makes exactly one relay call, with the static token,
\* recipient and sender, the subject field as Subject and a Body built from
\* the name, email, number and message fields; no other step adds, removes
\* or alters a call.
C9_OneCallPerSubmit ==
    [][/\ Submit =>
            /\ Len(calls') = Len(calls) + 1
            /\ SubSeq(calls', 1, Len(calls)) = calls
            /\ LET c == calls'[Len(calls')]
               IN  /\ c.SecureToken = "adae5b2b-48df-4fd6-95da-5bd5236f2722"
                   /\ c.To = "dossehdosseh14@gmail.com"
                   /\ c.From = "dossehdosseh14@gmail.com"
                   /\ c.Subject = form.subject
                   /\ Contains(c.Body, "Full Name: " \o form.name \o "<br>")
                   /\ Contains(c.Body, form.email \o "<br> Number : " \o form.number \o "<br>")
                   /\ Contains(c.Body, "Message: " \o form.message)
                   /\ c.state = "pending"
       /\ ~Submit =>
            /\ Len(calls') = Len(calls)
            /\ \A i \in 1..Len(calls) : Payload(calls'[i]) = Payload(calls[i])]_vars

\* one filled-in submission is in flight with the payload of its fields
C9_Witness ==
    /\ Len(calls) = 1
    /\ calls[1].state = "pending"
    /\ calls[1].Subject = "Job"
    /\ calls[1].Body =
        "Full Name: Ann<br> Email:\n    ann@x.io<br> Number : 555<br> Message: Hello"

\* C10: a rejected relay call shows no notification of any kind and changes
\* no class indicator and no form field.
C10_RejectionSwallowed ==
    [][RelayReject =>
        /\ UNCHANGED <<classVars, form, scrollY>>
        /\ Len(calls') = Len(calls)
        /\ \A i \in 1..Len(calls) :
            /\ calls'[i].swal = calls[i].swal
            /\ calls'[i].state = "rejected" => calls'[i].swal = <<>>]_vars

\* a call was rejected while the user had typed a new message
C10_Witness ==
    /\ form # EmptyForm
    /\ \E i \in 1..Len(calls) : calls[i].state = "rejected" /\ calls[i].swal = <<>>

-----------------------------------------------------------------------------
(* Further properties of the form and the scroll handler *)

\* C11: the fields of a submission are reset only after its relay outcome has
\* been handled: the submit step itself, which leaves the call pending, does
\* not clear what was typed.
C11_ResetAfterOutcome ==
    [][Submit =>
        (calls'[Len(calls')].state # "pending" \/ form' = form)]_vars

\* C14: a nav link left active by a matching scroll has an href equal to '#'
\* followed by the id of a matching section, by exact string equality.
C14_ExactHrefMatch ==
    [][(WindowScroll /\ MatchingSections' # {}) =>
        (\A k \in ActiveLinks' :
            \E i \in MatchingSections' : navlinks[k] = "#" \o sections[i].id)]_vars

BlankDom ==
    [linkActive |-> [k \in 1..Len(navlinks) |-> FALSE],
     secShowAnimate |-> [i \in 1..Len(sections) |-> FALSE],
     headerSticky |-> FALSE, menuIconBxX |-> FALSE,
     navbarActive |-> FALSE, footerShowAnimate |-> FALSE]

\* C16: what the handler leaves depends only on the scroll offset and the
\* layout: started from any reachable class state it ends with the same
\* nav links, sections, sticky and footer flags as started from a blank one.
C16_PureFunctionOfInputs ==
    [][WindowScroll =>
        (Dom' = OnScroll(BlankDom', sections', navlinks', scrollY',
                         innerHeight', scrollHeight'))]_vars

RECURSIVE SwalCount(_)
SwalCount(cs) == IF cs = <<>> THEN 0 ELSE Len(Head(cs).swal) + SwalCount(Tail(cs))

\* C17: whatever the order of the answers, the number of success
\* notifications shown equals the number of answers equal to "OK".
C17_NotificationsEqualOkAnswers ==
    SwalCount(calls) = Cardinality({i \in 1..Len(calls) : FulfilledOK(calls[i])})

\* the second submission was answered "OK" while the first is in flight
C17_Witness ==
    /\ Len(calls) >= 2
    /\ calls[1].state = "pending"
    /\ FulfilledOK(calls[2])
    /\ SwalCount(calls) = 1

\* C20: the menu icon has 'bx-x' iff the navbar has 'active', and a click
\* flips both (so two clicks in a row restore them).
C20_MenuClassesInStep ==
    [][/\ menuIconBxX' <=> navbarActive'
       /\ MenuIconClick =>
            (menuIconBxX' = ~menuIconBxX /\ navbarActive' = ~navbarActive)]_vars

\* the menu was opened after the page had been scrolled
C20_Witness == scrollY > 0 /\ menuIconBxX /\ navbarActive

-----------------------------------------------------------------------------
(* Properties of the route transition *)

\* C12: panel index has delay 0.1 * (6 - 1 - index): 500 ms for panel 0 down
\* to 0 for panel 5, strictly decreasing in the index, and a panel is still
\* waiting exactly while the clock has not passed its delay, so a panel with
\* a higher index always starts before one with a lower index.
C12_StaggeredDelays ==
    /\ \A i \in 0..5 : panels[i].delay = 100 * (6 - 1 - i)
    /\ panels[0].delay = 500 /\ panels[5].delay = 0
    /\ \A i, j \in 0..5 : i > j => panels[i].delay < panels[j].delay
    /\ \A i \in 0..5 : panels[i].status = "waiting" <=> stairsClock <= 100 * (5 - i)
    /\ \A i, j \in 0..5 :
        (i > j /\ panels[j].status # "waiting") => panels[i].status # "waiting"

\* the last-declared panel is moving and every other panel still waits
C12_Witness ==
    /\ panels[5].status = "running"
    /\ \A j \in 0..4 : panels[j].status = "waiting"

C18_WipeBeforeContent ==
    /\ stairsPhase = "animate" => (AllFinished <=> stairsClock >= 900)
    /\ contentOpacity # "0" => (stairsPhase = "animate" /\ AllFinished)
    /\ (stairsPhase = "animate" /\ navigations = 0 /\ contentClock >= 900)
            => AllFinished

\* the photo page fades in after a route change, behind finished stairs
C18_Witness ==
    /\ pathname = "/"
    /\ navigations >= 1
    /\ contentOpacity = "between"
    /\ AllFinished

\* C19: six panels with indices 0..5 are rendered; their reversed indices
\* are again 0..5, no two alike; no two delays are alike and none is
\* negative; reversing a reversed index gives the index back.
C19_ReverseIndexBijection ==
    /\ DOMAIN panels = 0..5
    /\ {panels[i].custom : i \in DOMAIN panels} = 0..5
    /\ \A i, j \in DOMAIN panels :
        i # j => (panels[i].custom # panels[j].custom /\ panels[i].delay # panels[j].delay)
    /\ \A i \in DOMAIN panels : panels[i].delay >= 0
    /\ \A i \in DOMAIN panels : reverseIndex(panels[i].custom) = i

\* the stairs of a second route are mounted and half-way through
C19_Witness ==
    /\ navigations = 1
    /\ stairsPhase = "animate"
    /\ panels[2].custom = 3
    /\ panels[2].status = "running"

-----------------------------------------------------------------------------
(* Properties across the handlers of the page script *)

MenuOpen == menuIconBxX \/ navbarActive

C23_PayloadFromSubmitTime ==
    [][/\ Submit =>
            /\ calls'[Len(calls')].Subject = form.subject
            /\ calls'[Len(calls')].Body = bodyMassage(form)
       /\ \A i \in 1..Len(calls) :
            /\ calls'[i].Subject = calls[i].Subject
            /\ calls'[i].Body = calls[i].Body]_vars

\* a filled-in submission is still in flight after an empty one was
\* submitted behind it and the user has typed again
C23_Witness ==
    /\ Len(calls) = 2
    /\ calls[1].state = "pending"
    /\ calls[1].Subject = "Job"
    /\ calls[1].Body = bodyMassage(
            [name |-> "Ann", email |-> "ann@x.io", number |-> "555",
             message |-> "Hello", subject |-> "Job"])
    /\ calls[2].Subject = ""
    /\ form # EmptyForm

\* C24: every submit event clears the fields within the submit step itself,
\* while its call is still pending; what the relay does afterwards (answer
\* "OK", answer something else, reject) leaves the fields as they are.
C24_SubmitAlwaysResets ==
    [][/\ Submit => (form' = EmptyForm /\ calls'[Len(calls')].state = "pending")
       /\ (RelayResolve \/ RelayReject) => form' = form]_vars

\* the fields are empty while every submission made is unanswered
C24_Witness ==
    /\ form = EmptyForm
    /\ Len(calls) = MaxCalls
    /\ \A i \in 1..Len(calls) : calls[i].state = "pending"
    /\ calls[Len(calls)].Subject = "Job"

\* C26: a menu-icon click leaves nav-link 'active', section 'show-animate',
\* header 'sticky', footer 'show-animate' and the form as they are; a form
\* submit leaves those four indicators and the menu classes as they are.
C26_ClickAndSubmitFrame ==
    [][/\ MenuIconClick => UNCHANGED <<scrollVars, form, calls>>
       /\ Submit => UNCHANGED <<scrollVars, menuVars>>]_vars

\* a click and a submit have acted on a page with every indicator set
C26_Witness ==
    /\ menuIconBxX /\ navbarActive
    /\ headerSticky /\ footerShowAnimate
    /\ ActiveLinks # {} /\ ShownSections # {}
    /\ Len(calls) >= 1
    /\ calls[Len(calls)].Subject = "Job"
    /\ form = EmptyForm

-----------------------------------------------------------------------------
(* Properties on further documents *)

\* C22: on every scroll event the handler runs to its end: the header's
\* 'sticky' follows scrollY > 100, the menu classes are removed and the
\* footer's 'show-animate' follows the bottom-of-page test, also when a
\* matching section has no id or no nav link whose href contains its id.
C22_HandlerRunsToEnd ==
    [][WindowScroll =>
        /\ headerSticky' <=> scrollY' > 100
        /\ ~menuIconBxX' /\ ~navbarActive'
        /\ footerShowAnimate' <=> innerHeight + scrollY' >= scrollHeight]_vars

Contiguous(secs) ==
    \A i \in 1..(Len(secs) - 1) :
        secs[i + 1].offsetTop = secs[i].offsetTop + secs[i].offsetHeight

FirstRangeStart == sections[1].offsetTop - 100

LastRangeEnd ==
    sections[Len(sections)].offsetTop + sections[Len(sections)].offsetHeight - 100

\* C25: when each section starts where the previous one ends, exactly one
\* section matches a scroll offset in [firstTop - 100, lastTop + lastHeight
\* - 100) and none matches an offset outside that interval.
C25_ContiguousRangesPartition ==
    Contiguous(sections) =>
        Cardinality(MatchingSections) =
            (IF scrollY >= FirstRangeStart /\ scrollY < LastRangeEnd THEN 1 ELSE 0)

\* the page has been scrolled to the first offset past the last range
C25_Witness ==
    /\ Contiguous(sections)
    /\ Len(sections) = 3
    /\ FirstRangeStart > 0
    /\ scrollY = LastRangeEnd
    /\ MatchingSections = {}
    /\ ShownSections = {}
    /\ headerSticky

-----------------------------------------------------------------------------
(* Properties of the Projects page *)

\* C27: the displayed project is works[0] when the Projects page mounts and,
\* after any sequence of slide changes, is works[activeIndex]; the active
\* index is one of the slides 0..3, so the project is a defined entry.
C27_ProjectFollowsSlide ==
    /\ pathname = "/work" => project = works[0]
    /\ [][(pathname' = "/work" /\ pathname # "/work") => project' = works[0]]_vars
    /\ [](pathname = "/work" =>
            /\ activeIndex \in 0..3
            /\ project = works[activeIndex]
            /\ project # undefined
            /\ project \in {works[i] : i \in 0..3})

\* the slider of a page reached by navigation is on its last slide
C27_Witness ==
    /\ pathname = "/work"
    /\ navigations >= 1
    /\ activeIndex = 3
    /\ project.num = "04"

====
